---- MODULE Spec2Model ----
(***************************************************************************)
(* Conway's Game of Life on a sparse unbounded grid (src/main.cpp).        *)
(* The camera and the drawing code do not touch this state and are left    *)
(* out.                                                                    *)
(*                                                                         *)
(* The state is the state of main(): the cell store, the generation        *)
(* counter, the paused flag, the step rate, and the three function-local   *)
(* statics of handle_mouse_interaction.  One driver frame is the sequence  *)
(* handle_mouse_interaction; handle_ui_input (five key tests in source     *)
(* order); the auto-step test.  pc is the position inside the frame.       *)
(* A cell is a pair <<x, y>>; a grid is the set of keys of the CellGrid    *)
(* map (every stored value is true, so the key set is the whole content).  *)
(* step_rate is kept in hundredths of a second.  The generation counter,   *)
(* a long long, is kept as three digits (see LL).                          *)
(***************************************************************************)
EXTENDS Integers, FiniteSets, Sequences, TLC

VARIABLES grid, generation, paused, step_rate,
          is_painting, paint_mode_is_drawing, cells_modified_this_stroke,
          pc, op, h

vars == <<grid, generation, paused, step_rate,
          is_painting, paint_mode_is_drawing, cells_modified_this_stroke,
          pc, op, h>>

----------------------------------------------------------------------------
(* Bounds of the model.                                                    *)

\* the pointer reaches the cells <<0,0>> .. <<MaxX,0>>; with these cells no
\* addition of a frame overflows (the ends of the int range are met in the
\* step-function runs)
MaxX == 2
\* the driver lets the generation counter reach MaxGen between two resets
MaxGen == 1
\* the step-function runs apply update_grid up to MaxSteps times, and the
\* driver with the reported buttons lets the counter reach MaxSteps between
\* two resets
MaxSteps == 2
\* the rate keys are explored up to MaxRateDrift presses away from the default
MaxRateDrift == 1
\* initial patterns of the step-function checks: every subset of a box
\* BoxW cells wide and 3 cells high
BoxW == 3
\* named patterns are placed at every offset in -MaxOff..MaxOff squared
MaxOff == 1

\* coordinates given to the hash lie in -MaxCoord..MaxCoord, or are the
\* least or the greatest int
MaxCoord == 5

(* Program constants, in hundredths of a second.                           *)
SPEED_ADJUST == 5
RATE_MIN == 1
RATE_MAX == 200
RATE_DEFAULT == 20

(* A coordinate is an int.                                                 *)
INT_MAX == 2147483647
INT_MIN == -INT_MAX - 1

(* A long long is <<top, mid, low>> with top in -2..1 and mid, low in       *)
(* 0..INT_MAX, and stands for top * 2^62 + mid * 2^31 + low.               *)
LL(n) == <<0, 0, n>>
LLONG_MAX == <<1, INT_MAX, INT_MAX>>
LLONG_MIN == <<-2, 0, 0>>

\* v + 1 leaves the range of long long: the increment is undefined
increment_overflows(v) == v = LLONG_MAX

\* v + 1; the greatest value goes to the least when the overflow wraps
increment(v) ==
  IF v[3] < INT_MAX THEN <<v[1], v[2], v[3] + 1>>
  ELSE IF v[2] < INT_MAX THEN <<v[1], v[2] + 1, 0>>
  ELSE IF v[1] < 1 THEN <<v[1] + 1, 0, 0>>
  ELSE LLONG_MIN

\* u < v
less_than(u, v) ==
  \/ u[1] < v[1]
  \/ u[1] = v[1] /\ u[2] < v[2]
  \/ u[1] = v[1] /\ u[2] = v[2] /\ u[3] < v[3]

----------------------------------------------------------------------------
(* Recorded operation: what the last step did and, for a step of the       *)
(* mouse handler, the inputs it was given.  h is a history variable: the   *)
(* grid (and the cell) a scripted scenario started from and the scenario's *)
(* position; the driver leaves it alone.  In the driver with the reported  *)
(* buttons h holds the count of calls and the left button as the frame     *)
(* before found it.                                                        *)

NoCell == <<>>

Did(name) ==
  [name |-> name, cell |-> NoCell, was_painting |-> FALSE,
   pressed |-> FALSE, left_down |-> FALSE, released |-> FALSE, right |-> FALSE]
\* was_painting is is_painting as the mouse handler found it
DidAt(name, cell, pressed, down, released, right) ==
  [name |-> name, cell |-> cell, was_painting |-> is_painting,
   pressed |-> pressed, left_down |-> down, released |-> released, right |-> right]

NoHistory == [grid0 |-> {}, cell0 |-> NoCell, pos |-> 0]

stroke == <<is_painting, paint_mode_is_drawing, cells_modified_this_stroke>>
engine == <<grid, generation, paused, step_rate>>

----------------------------------------------------------------------------
(* The step function.                                                      *)

neighbour_offsets ==
  { <<-1, -1>>, <<0, -1>>, <<1, -1>>,
    <<-1,  0>>,            <<1,  0>>,
    <<-1,  1>>, <<0,  1>>, <<1,  1>> }

\* a + d leaves the range of int: the addition is undefined
int_add_overflows(a, d) ==
  \/ d > 0 /\ a > INT_MAX - d
  \/ d < 0 /\ a < INT_MIN - d

\* the int a + d; a sum that leaves the range comes back in at the other end
\* when the overflow wraps
int_add(a, d) ==
  IF d > 0 /\ a > INT_MAX - d THEN INT_MIN + ((a - INT_MAX) + (d - 1))
  ELSE IF d < 0 /\ a < INT_MIN - d THEN INT_MAX + ((a - INT_MIN) + (d + 1))
  ELSE a + d

\* what an overflowing addition does is not defined: it wraps, or it traps
\* and the program ends
OverflowOutcomes == {"wrap", "trap"}

add_offset_overflows(cell, offset) ==
  \/ int_add_overflows(cell[1], offset[1])
  \/ int_add_overflows(cell[2], offset[2])

add_offset(cell, offset) ==
  <<int_add(cell[1], offset[1]), int_add(cell[2], offset[2])>>

\* variant: the four diagonal offsets left out of the table
count_orthogonal_neighbours(g, cell) ==
  Cardinality({ offset \in { <<0, -1>>, <<-1, 0>>, <<1, 0>>, <<0, 1>> } :
                  add_offset(cell, offset) \in g })

count_active_neighbours(g, cell) ==
  Cardinality({ offset \in neighbour_offsets : add_offset(cell, offset) \in g })

candidates(g) ==
  g \cup { add_offset(coord, offset) : coord \in g, offset \in neighbour_offsets }

\* variant: a live cell survives on 2 neighbours only
update_grid_survive_on_2(g) ==
  { coord \in candidates(g) :
      LET neighbours == count_active_neighbours(g, coord)
          is_alive   == coord \in g
      IN  IF is_alive THEN neighbours = 2
                      ELSE neighbours = 3 }

\* variant: the lower bound of the survival test left out
update_grid_no_underpopulation(g) ==
  { coord \in candidates(g) :
      LET neighbours == count_active_neighbours(g, coord)
          is_alive   == coord \in g
      IN  IF is_alive THEN neighbours <= 3
                      ELSE neighbours = 3 }

\* variant: new_grid is probed with a default-constructed key, which
\* operator[] inserts; presence in the map is what counts as alive
update_grid_origin(g) ==
  { coord \in candidates(g) :
      LET neighbours == count_active_neighbours(g, coord)
          is_alive   == coord \in g
      IN  IF is_alive THEN neighbours = 2 \/ neighbours = 3
                      ELSE neighbours = 3 } \cup { <<0, 0>> }

update_grid(g) ==
  { coord \in candidates(g) :
      LET neighbours == count_active_neighbours(g, coord)
          is_alive   == coord \in g
      IN  IF is_alive THEN neighbours = 2 \/ neighbours = 3
                      ELSE neighbours = 3 }

\* some addition of update_grid(g) overflows: every candidate, live cells
\* included, has the eight offsets added to it
update_grid_overflows(g) ==
  \E coord \in candidates(g), offset \in neighbour_offsets :
     add_offset_overflows(coord, offset)

\* a call of update_grid(grid, generation) that stops counting when the grid
\* did not change
advance_if_changed(name, next_pc) ==
  \E sums \in OverflowOutcomes, count \in OverflowOutcomes :
     IF sums = "trap" /\ update_grid_overflows(grid)
       THEN /\ pc' = "trapped"
            /\ op' = Did("trap")
            /\ UNCHANGED <<grid, generation>>
       ELSE IF count = "trap" /\ increment_overflows(generation)
       THEN /\ grid' = update_grid(grid)
            /\ pc' = "trapped"
            /\ op' = Did("trap")
            /\ UNCHANGED generation
       ELSE /\ grid' = update_grid(grid)
            /\ generation' = IF grid' = grid THEN generation
                                              ELSE increment(generation)
            /\ pc' = next_pc
            /\ op' = Did(name)

\* a call of update_grid(grid, generation); the frame goes on at next_pc.
\* The call has two places where an overflow is undefined, and what the
\* build does at one says nothing about the other: the coordinate sums
\* (sums) and the increment of the counter (count).  If a coordinate sum
\* overflowed, the call either goes on with the wrapped sums or traps before
\* the grid is replaced, and then the program has ended.  The counter is
\* incremented after the grid has been replaced; if that overflows, the
\* counter either wraps or the call traps with the new grid in place,
\* whether or not sums had wrapped before.
advance(name, next_pc) ==
  \E sums \in OverflowOutcomes, count \in OverflowOutcomes :
     IF sums = "trap" /\ update_grid_overflows(grid)
       THEN /\ pc' = "trapped"
            /\ op' = Did("trap")
            /\ UNCHANGED <<grid, generation>>
       ELSE IF count = "trap" /\ increment_overflows(generation)
       THEN /\ grid' = update_grid(grid)
            /\ pc' = "trapped"
            /\ op' = Did("trap")
            /\ UNCHANGED generation
       ELSE /\ grid' = update_grid(grid)
            /\ generation' = increment(generation)
            /\ pc' = next_pc
            /\ op' = Did(name)

----------------------------------------------------------------------------
(* CoordHash.  A size_t is a function from bit positions to bits, bit 0    *)
(* the least significant.  std::hash<int> is the conversion of the int to  *)
(* size_t, which extends the sign.                                         *)

WordBits == 64

BitPositions == 0..(WordBits - 1)

hash_int(n) ==
  [i \in BitPositions |->
     IF i < 31 THEN (n \div (2^i)) % 2 ELSE IF n < 0 THEN 1 ELSE 0]

\* w << 1: the top bit is lost
shift_left_1(w) == [i \in BitPositions |-> IF i = 0 THEN 0 ELSE w[i - 1]]

\* u ^ w
xor(u, w) == [i \in BitPositions |-> (u[i] + w[i]) % 2]

\* variant: the second hash is not shifted
CoordHash_unshifted(p) ==
  LET hash_1 == hash_int(p[1])
      hash_2 == hash_int(p[2])
  IN  xor(hash_1, hash_2)

CoordHash(p) ==
  LET hash_1 == hash_int(p[1])
      hash_2 == hash_int(p[2])
  IN  xor(hash_1, shift_left_1(hash_2))

----------------------------------------------------------------------------
(* handle_mouse_interaction: one action per branch of its if / else-if     *)
(* chain.  cell is current_cell_coord; pressed, down, released are         *)
(* IsMouseButtonPressed / Down / Released of the left button; right is     *)
(* IsMouseButtonDown of the right button.                                  *)

\* press with the right button held: early return
mouse_press_blocked(cell, pressed, down, released, right) ==
  /\ pressed /\ right
  /\ op' = DidAt("press_blocked", cell, pressed, down, released, right)
  /\ UNCHANGED <<engine, stroke>>

\* variant: a press does not clear the cells of the stroke before
mouse_press_keeps_record(cell, pressed, down, released, right) ==
  /\ pressed /\ ~right
  /\ is_painting' = TRUE
  /\ IF cell \in grid
       THEN /\ paint_mode_is_drawing' = FALSE
            /\ grid' = grid \ {cell}
       ELSE /\ paint_mode_is_drawing' = TRUE
            /\ grid' = grid \cup {cell}
  /\ cells_modified_this_stroke' = cells_modified_this_stroke \cup {cell}
  /\ op' = DidAt("toggle_start", cell, pressed, down, released, right)
  /\ UNCHANGED <<generation, paused, step_rate>>

\* variant: a press always draws
mouse_press_draw_only(cell, pressed, down, released, right) ==
  /\ pressed /\ ~right
  /\ is_painting' = TRUE
  /\ paint_mode_is_drawing' = TRUE
  /\ grid' = grid \cup {cell}
  /\ cells_modified_this_stroke' = {cell}
  /\ op' = DidAt("toggle_start", cell, pressed, down, released, right)
  /\ UNCHANGED <<generation, paused, step_rate>>

\* press: toggle_start
mouse_press(cell, pressed, down, released, right) ==
  /\ pressed /\ ~right
  /\ is_painting' = TRUE
  /\ IF cell \in grid
       THEN /\ paint_mode_is_drawing' = FALSE
            /\ grid' = grid \ {cell}
       ELSE /\ paint_mode_is_drawing' = TRUE
            /\ grid' = grid \cup {cell}
  /\ cells_modified_this_stroke' = {cell}
  /\ op' = DidAt("toggle_start", cell, pressed, down, released, right)
  /\ UNCHANGED <<generation, paused, step_rate>>

\* variant: the drag returns without abandoning the stroke
mouse_drag_cancel_keeps_painting(cell, pressed, down, released, right) ==
  /\ ~pressed /\ is_painting /\ down /\ right
  /\ op' = DidAt("stroke_cancel", cell, pressed, down, released, right)
  /\ UNCHANGED <<engine, stroke>>

\* drag with the right button held: the stroke is abandoned
mouse_drag_cancel(cell, pressed, down, released, right) ==
  /\ ~pressed /\ is_painting /\ down /\ right
  /\ is_painting' = FALSE
  /\ op' = DidAt("stroke_cancel", cell, pressed, down, released, right)
  /\ UNCHANGED <<engine, paint_mode_is_drawing, cells_modified_this_stroke>>

\* variant: a drag flips every cell it visits, whatever the stroke mode
mouse_drag_toggle(cell, pressed, down, released, right) ==
  /\ ~pressed /\ is_painting /\ down /\ ~right
  /\ IF cell \notin cells_modified_this_stroke
       THEN /\ grid' = IF cell \notin grid THEN grid \cup {cell} ELSE grid \ {cell}
            /\ cells_modified_this_stroke' = cells_modified_this_stroke \cup {cell}
       ELSE UNCHANGED <<grid, cells_modified_this_stroke>>
  /\ op' = DidAt("continue_stroke", cell, pressed, down, released, right)
  /\ UNCHANGED <<generation, paused, step_rate, is_painting, paint_mode_is_drawing>>

\* variant: a drag does not consult the cells modified so far
mouse_drag_untracked(cell, pressed, down, released, right) ==
  /\ ~pressed /\ is_painting /\ down /\ ~right
  /\ grid' = IF paint_mode_is_drawing
               THEN (IF cell \notin grid THEN grid \cup {cell} ELSE grid)
               ELSE (IF cell \in grid THEN grid \ {cell} ELSE grid)
  /\ cells_modified_this_stroke' = cells_modified_this_stroke \cup {cell}
  /\ op' = DidAt("continue_stroke", cell, pressed, down, released, right)
  /\ UNCHANGED <<generation, paused, step_rate, is_painting, paint_mode_is_drawing>>

\* drag: continue_stroke
mouse_drag(cell, pressed, down, released, right) ==
  /\ ~pressed /\ is_painting /\ down /\ ~right
  /\ IF cell \notin cells_modified_this_stroke
       THEN /\ grid' = IF paint_mode_is_drawing
                         THEN (IF cell \notin grid THEN grid \cup {cell} ELSE grid)
                         ELSE (IF cell \in grid THEN grid \ {cell} ELSE grid)
            /\ cells_modified_this_stroke' = cells_modified_this_stroke \cup {cell}
       ELSE UNCHANGED <<grid, cells_modified_this_stroke>>
  /\ op' = DidAt("continue_stroke", cell, pressed, down, released, right)
  /\ UNCHANGED <<generation, paused, step_rate, is_painting, paint_mode_is_drawing>>

\* variant: a release also empties the set of modified cells
mouse_release_clearing(cell, pressed, down, released, right) ==
  /\ ~pressed /\ ~(is_painting /\ down) /\ is_painting /\ released
  /\ is_painting' = FALSE
  /\ cells_modified_this_stroke' = {}
  /\ op' = DidAt("end_stroke", cell, pressed, down, released, right)
  /\ UNCHANGED <<engine, paint_mode_is_drawing>>

\* release: end_stroke
mouse_release(cell, pressed, down, released, right) ==
  /\ ~pressed /\ ~(is_painting /\ down) /\ is_painting /\ released
  /\ is_painting' = FALSE
  /\ op' = DidAt("end_stroke", cell, pressed, down, released, right)
  /\ UNCHANGED <<engine, paint_mode_is_drawing, cells_modified_this_stroke>>

\* variant: the last branch of the chain is missing
mouse_up_missing(cell, pressed, down, released, right) ==
  /\ ~pressed /\ ~(is_painting /\ down) /\ ~(is_painting /\ released)
  /\ ~down /\ is_painting
  /\ op' = DidAt("end_signal", cell, pressed, down, released, right)
  /\ UNCHANGED <<engine, stroke>>

\* the button is found up without a release event: end_stroke by signal
mouse_up(cell, pressed, down, released, right) ==
  /\ ~pressed /\ ~(is_painting /\ down) /\ ~(is_painting /\ released)
  /\ ~down /\ is_painting
  /\ is_painting' = FALSE
  /\ op' = DidAt("end_signal", cell, pressed, down, released, right)
  /\ UNCHANGED <<engine, paint_mode_is_drawing, cells_modified_this_stroke>>

\* no branch applies
mouse_idle(cell, pressed, down, released, right) ==
  /\ ~pressed /\ ~(is_painting /\ down) /\ ~(is_painting /\ released)
  /\ ~(~down /\ is_painting)
  /\ op' = DidAt("mouse_idle", cell, pressed, down, released, right)
  /\ UNCHANGED <<engine, stroke>>

handle_mouse_interaction(cell, pressed, down, released, right) ==
  /\ pc = "mouse"
  /\ pc' = "space"
  /\ \/ mouse_press_blocked(cell, pressed, down, released, right)
     \/ mouse_press(cell, pressed, down, released, right)
     \/ mouse_drag_cancel(cell, pressed, down, released, right)
     \/ mouse_drag(cell, pressed, down, released, right)
     \/ mouse_release(cell, pressed, down, released, right)
     \/ mouse_up(cell, pressed, down, released, right)
     \/ mouse_idle(cell, pressed, down, released, right)

----------------------------------------------------------------------------
(* handle_ui_input: the five key tests, in source order.                   *)

key_space(pressed) ==
  /\ pc = "space"
  /\ pc' = "s"
  /\ paused' = IF pressed THEN ~paused ELSE paused
  /\ op' = Did(IF pressed THEN "pause_toggle" ELSE "no_key")
  /\ UNCHANGED <<grid, generation, step_rate, stroke>>

\* variant: a manual step also pauses the simulation
key_s_pausing(pressed) ==
  /\ pc = "s"
  /\ IF pressed
       THEN advance("step", "up")
       ELSE /\ pc' = "up"
            /\ op' = Did("no_key")
            /\ UNCHANGED <<grid, generation>>
  /\ paused' = IF pressed THEN TRUE ELSE paused
  /\ UNCHANGED <<step_rate, stroke>>

key_s(pressed) ==
  /\ pc = "s"
  /\ IF pressed
       THEN advance("step", "up")
       ELSE /\ pc' = "up"
            /\ op' = Did("no_key")
            /\ UNCHANGED <<grid, generation>>
  /\ UNCHANGED <<paused, step_rate, stroke>>

\* variant: the lower clamp left out
speed_up_unclamped(rate) == rate - SPEED_ADJUST

speed_up(rate) ==
  IF rate - SPEED_ADJUST < RATE_MIN THEN RATE_MIN ELSE rate - SPEED_ADJUST

slow_down(rate) ==
  IF rate + SPEED_ADJUST > RATE_MAX THEN RATE_MAX ELSE rate + SPEED_ADJUST

key_up(pressed) ==
  /\ pc = "up"
  /\ pc' = "down"
  /\ step_rate' = IF pressed THEN speed_up(step_rate) ELSE step_rate
  /\ op' = Did(IF pressed THEN "speed_up" ELSE "no_key")
  /\ UNCHANGED <<grid, generation, paused, stroke>>

key_down(pressed) ==
  /\ pc = "down"
  /\ pc' = "r"
  /\ step_rate' = IF pressed THEN slow_down(step_rate) ELSE step_rate
  /\ op' = Did(IF pressed THEN "slow_down" ELSE "no_key")
  /\ UNCHANGED <<grid, generation, paused, stroke>>

\* variant: the rate is not restored
key_r_keeps_rate(pressed) ==
  /\ pc = "r"
  /\ pc' = "auto"
  /\ IF pressed
       THEN /\ grid' = {}
            /\ paused' = TRUE
            /\ generation' = LL(0)
            /\ UNCHANGED step_rate
       ELSE UNCHANGED engine
  /\ op' = Did(IF pressed THEN "reset" ELSE "no_key")
  /\ UNCHANGED stroke

\* variant: a reset leaves the generation counter alone
key_r_keeps_generation(pressed) ==
  /\ pc = "r"
  /\ pc' = "auto"
  /\ IF pressed
       THEN /\ grid' = {}
            /\ paused' = TRUE
            /\ step_rate' = RATE_DEFAULT
            /\ UNCHANGED generation
       ELSE UNCHANGED engine
  /\ op' = Did(IF pressed THEN "reset" ELSE "no_key")
  /\ UNCHANGED stroke

\* variant: a reset also ends the stroke and forgets its cells
key_r_ends_stroke(pressed) ==
  /\ pc = "r"
  /\ pc' = "auto"
  /\ IF pressed
       THEN /\ grid' = {}
            /\ paused' = TRUE
            /\ generation' = LL(0)
            /\ step_rate' = RATE_DEFAULT
            /\ is_painting' = FALSE
            /\ cells_modified_this_stroke' = {}
            /\ UNCHANGED paint_mode_is_drawing
       ELSE UNCHANGED <<engine, stroke>>
  /\ op' = Did(IF pressed THEN "reset" ELSE "no_key")

key_r(pressed) ==
  /\ pc = "r"
  /\ pc' = "auto"
  /\ IF pressed
       THEN /\ grid' = {}
            /\ paused' = TRUE
            /\ generation' = LL(0)
            /\ step_rate' = RATE_DEFAULT
       ELSE UNCHANGED engine
  /\ op' = Did(IF pressed THEN "reset" ELSE "no_key")
  /\ UNCHANGED stroke

----------------------------------------------------------------------------
(* The auto-step test of the main loop.  time_up is the result of          *)
(* is_time_to_step(step_rate), which reads the wall clock; it is only      *)
(* evaluated when the simulation is not paused.                            *)

\* variant: the auto-step does not look at the paused flag
auto_step_ignores_pause(time_up) ==
  /\ pc = "auto"
  /\ IF time_up
       THEN advance("auto_step", "mouse")
       ELSE /\ pc' = "mouse"
            /\ op' = Did("no_step")
            /\ UNCHANGED <<grid, generation>>
  /\ UNCHANGED <<paused, step_rate, stroke>>

auto_step(time_up) ==
  /\ pc = "auto"
  /\ IF ~paused /\ time_up
       THEN advance("auto_step", "mouse")
       ELSE /\ pc' = "mouse"
            /\ op' = Did("no_step")
            /\ UNCHANGED <<grid, generation>>
  /\ UNCHANGED <<paused, step_rate, stroke>>

----------------------------------------------------------------------------
(* The driver.                                                             *)

PaintCells == { <<x, 0>> : x \in 0..MaxX }

\* what the input library can report in one frame: a press reports the
\* button down, a release reports it up
MouseInputs ==
  { i \in [pressed : BOOLEAN, down : BOOLEAN, released : BOOLEAN, right : BOOLEAN] :
      /\ i.pressed => i.down
      /\ i.released => ~i.down }

RateInWindow(rate) ==
  /\ rate >= RATE_DEFAULT - MaxRateDrift * SPEED_ADJUST
  /\ rate <= RATE_DEFAULT + MaxRateDrift * SPEED_ADJUST

Init ==
  /\ grid = {}
  /\ generation = LL(0)
  /\ paused = TRUE
  /\ step_rate = RATE_DEFAULT
  /\ is_painting = FALSE
  /\ paint_mode_is_drawing = FALSE
  /\ cells_modified_this_stroke = {}
  /\ pc = "mouse"
  /\ op = Did("init")
  /\ h = NoHistory

MouseStep ==
  /\ \E cell \in PaintCells, i \in MouseInputs :
        handle_mouse_interaction(cell, i.pressed, i.down, i.released, i.right)
  /\ UNCHANGED h

SpaceStep ==
  /\ \E pressed \in BOOLEAN : key_space(pressed)
  /\ UNCHANGED h

SStep ==
  /\ \E pressed \in BOOLEAN : (pressed => less_than(generation, LL(MaxGen))) /\ key_s(pressed)
  /\ UNCHANGED h

UpStep ==
  /\ \E pressed \in BOOLEAN :
        (pressed => RateInWindow(step_rate - SPEED_ADJUST)) /\ key_up(pressed)
  /\ UNCHANGED h

DownStep ==
  /\ \E pressed \in BOOLEAN :
        (pressed => RateInWindow(step_rate + SPEED_ADJUST)) /\ key_down(pressed)
  /\ UNCHANGED h

RStep ==
  /\ \E pressed \in BOOLEAN : key_r(pressed)
  /\ UNCHANGED h

AutoStep ==
  /\ \E time_up \in BOOLEAN : (time_up => less_than(generation, LL(MaxGen))) /\ auto_step(time_up)
  /\ UNCHANGED h

Next ==
  \/ MouseStep
  \/ SpaceStep
  \/ SStep
  \/ UpStep
  \/ DownStep
  \/ RStep
  \/ AutoStep

Spec == Init /\ [][Next]_vars

----------------------------------------------------------------------------
(* The step function on its own: the run starts from any pattern of a      *)
(* small box, or from a named pattern placed at an offset near the origin  *)
(* or at an end of the int range, with the counter at 0, and applies       *)
(* update_grid up to MaxSteps times.                                       *)
(* h.grid0 keeps the starting pattern and h.pos counts the calls that      *)
(* returned.                                                               *)

Box == { <<x, y>> : x \in 0..(BoxW - 1), y \in 0..2 }

Offsets == { <<dx, dy>> : dx \in (-MaxOff)..MaxOff, dy \in (-MaxOff)..MaxOff }

\* placements that put cells on the last or the first column or row
EdgeOffsets ==
  { <<INT_MAX - 2, 0>>, <<0, INT_MAX>>, <<INT_MAX - 1, INT_MIN>>,
    <<INT_MIN, INT_MAX>>, <<INT_MIN, INT_MIN>> }

translate(pattern, offset) == { add_offset(cell, offset) : cell \in pattern }

\* the pattern moved by the offset has int coordinates
fits(pattern, offset) ==
  \A cell \in pattern : ~add_offset_overflows(cell, offset)

Placed(pattern) ==
  { translate(pattern, offset) :
      offset \in { o \in Offsets \cup EdgeOffsets : fits(pattern, o) } }

Blinker == { <<0, 0>>, <<1, 0>>, <<2, 0>> }
Block   == { <<0, 0>>, <<1, 0>>, <<0, 1>>, <<1, 1>> }
Single  == { <<0, 0>> }

StartPatterns ==
  (SUBSET Box) \cup Placed(Blinker) \cup Placed(Block) \cup Placed(Single) \cup { {} }

InitAdvance ==
  /\ grid \in StartPatterns
  /\ generation = LL(0)
  /\ paused = TRUE
  /\ step_rate = RATE_DEFAULT
  /\ is_painting = FALSE
  /\ paint_mode_is_drawing = FALSE
  /\ cells_modified_this_stroke = {}
  /\ pc = "s"
  /\ op = Did("init")
  /\ h = [grid0 |-> grid, cell0 |-> NoCell, pos |-> 0]

AdvanceStep ==
  /\ pc = "s"
  /\ h.pos < MaxSteps
  /\ advance("step", "s")
  /\ h' = [h EXCEPT !.pos = IF op'.name = "step" THEN h.pos + 1 ELSE h.pos]
  /\ UNCHANGED <<paused, step_rate, stroke>>

NextAdvance == AdvanceStep

SpecAdvance == InitAdvance /\ [][NextAdvance]_vars

----------------------------------------------------------------------------
(* The driver with the buttons as the input library reports them, frame    *)
(* after frame.  The library reads the button once per frame; a press is   *)
(* reported in the frame that finds the button down after a frame that     *)
(* found it up, and a release in the frame that finds it up after a frame  *)
(* that found it down.  h.left_was_down is the left button as the frame    *)
(* before found it, and h.calls counts the calls of update_grid since the  *)
(* last reset.  The pointer reaches the three cells of a corner, so every  *)
(* grid stays inside a block of four cells however many steps are made,    *)
(* and the counter runs up to MaxSteps between two resets.                 *)

Corner == { <<0, 0>>, <<1, 0>>, <<0, 1>> }

InitFrames ==
  /\ grid = {}
  /\ generation = LL(0)
  /\ paused = TRUE
  /\ step_rate = RATE_DEFAULT
  /\ is_painting = FALSE
  /\ paint_mode_is_drawing = FALSE
  /\ cells_modified_this_stroke = {}
  /\ pc = "mouse"
  /\ op = Did("init")
  /\ h = [calls |-> 0, left_was_down |-> FALSE]

FrameMouse ==
  \E cell \in Corner, down \in BOOLEAN, right \in BOOLEAN :
     /\ handle_mouse_interaction(cell, down /\ ~h.left_was_down, down,
                                 ~down /\ h.left_was_down, right)
     /\ h' = [h EXCEPT !.left_was_down = down]

FrameS ==
  \E pressed \in BOOLEAN :
     /\ pressed => less_than(generation, LL(MaxSteps))
     /\ key_s(pressed)
     /\ h' = [h EXCEPT !.calls = IF op'.name = "step" THEN h.calls + 1 ELSE h.calls]

FrameR ==
  \E pressed \in BOOLEAN :
     /\ key_r(pressed)
     /\ h' = [h EXCEPT !.calls = IF pressed THEN 0 ELSE h.calls]

FrameAuto ==
  \E time_up \in BOOLEAN :
     /\ time_up => less_than(generation, LL(MaxSteps))
     /\ auto_step(time_up)
     /\ h' = [h EXCEPT !.calls = IF op'.name = "auto_step" THEN h.calls + 1
                                                           ELSE h.calls]

NextFrames ==
  \/ FrameMouse
  \/ SpaceStep
  \/ FrameS
  \/ UpStep
  \/ DownStep
  \/ FrameR
  \/ FrameAuto

SpecFrames == InitFrames /\ [][NextFrames]_vars

----------------------------------------------------------------------------
(* The toggle scenario: from any paintable grid, press on a cell, release, *)
(* press on the same cell, release, with no step, reset or auto-step in    *)
(* the frames between.  h.pos counts the mouse operations done so far.     *)

InitToggle ==
  /\ grid \in SUBSET PaintCells
  /\ generation = LL(0)
  /\ paused \in BOOLEAN
  /\ step_rate = RATE_DEFAULT
  /\ is_painting = FALSE
  /\ paint_mode_is_drawing = FALSE
  /\ cells_modified_this_stroke = {}
  /\ pc = "mouse"
  /\ op = Did("init")
  /\ \E cell \in PaintCells : h = [grid0 |-> grid, cell0 |-> cell, pos |-> 0]

TogglePress ==
  /\ h.pos \in {0, 2}
  /\ handle_mouse_interaction(h.cell0, TRUE, TRUE, FALSE, FALSE)
  /\ h' = [h EXCEPT !.pos = h.pos + 1]

ToggleEnd ==
  /\ h.pos \in {1, 3}
  /\ \E cell \in PaintCells, released \in BOOLEAN :
        handle_mouse_interaction(cell, FALSE, FALSE, released, FALSE)
  /\ h' = [h EXCEPT !.pos = h.pos + 1]

ToggleRest ==
  /\ h.pos = 4
  /\ \E cell \in PaintCells : handle_mouse_interaction(cell, FALSE, FALSE, FALSE, FALSE)
  /\ UNCHANGED h

ToggleNoStep == key_s(FALSE) /\ UNCHANGED h
ToggleNoReset == key_r(FALSE) /\ UNCHANGED h
ToggleNoAutoStep == auto_step(FALSE) /\ UNCHANGED h

NextToggle ==
  \/ TogglePress
  \/ ToggleEnd
  \/ ToggleRest
  \/ SpaceStep
  \/ ToggleNoStep
  \/ UpStep
  \/ DownStep
  \/ ToggleNoReset
  \/ ToggleNoAutoStep

SpecToggle == InitToggle /\ [][NextToggle]_vars

----------------------------------------------------------------------------
(* The rate keys over their whole range: the driver with the pointer at    *)
(* rest and every key free.  h.prev_rate keeps the rate the last rate key  *)
(* found.                                                                  *)

InitRate ==
  /\ grid = {}
  /\ generation = LL(0)
  /\ paused = TRUE
  /\ step_rate = RATE_DEFAULT
  /\ is_painting = FALSE
  /\ paint_mode_is_drawing = FALSE
  /\ cells_modified_this_stroke = {}
  /\ pc = "mouse"
  /\ op = Did("init")
  /\ h = [prev_rate |-> RATE_DEFAULT]

RateMouseRest ==
  /\ handle_mouse_interaction(<<0, 0>>, FALSE, FALSE, FALSE, FALSE)
  /\ UNCHANGED h

RateUp ==
  /\ \E pressed \in BOOLEAN : key_up(pressed)
  /\ h' = [prev_rate |-> step_rate]

RateDown ==
  /\ \E pressed \in BOOLEAN : key_down(pressed)
  /\ h' = [prev_rate |-> step_rate]

NextRate ==
  \/ RateMouseRest
  \/ SpaceStep
  \/ SStep
  \/ RateUp
  \/ RateDown
  \/ RStep
  \/ AutoStep

SpecRate == InitRate /\ [][NextRate]_vars

----------------------------------------------------------------------------
(* The hash applied to a coordinate pair and to the swapped pair.  h holds *)
(* the pair and, once computed, the two hash values.                       *)

HashCoords == (-MaxCoord..MaxCoord) \cup {INT_MIN, INT_MAX}

NoHash == << >>

InitHash ==
  /\ grid = {}
  /\ generation = LL(0)
  /\ paused = TRUE
  /\ step_rate = RATE_DEFAULT
  /\ is_painting = FALSE
  /\ paint_mode_is_drawing = FALSE
  /\ cells_modified_this_stroke = {}
  /\ pc = "mouse"
  /\ op = Did("init")
  /\ h \in [pair : HashCoords \X HashCoords, hash : {NoHash}, swapped_hash : {NoHash}]

HashStep ==
  /\ op.name = "init"
  /\ h' = [pair |-> h.pair,
           hash |-> CoordHash(h.pair),
           swapped_hash |-> CoordHash(<<h.pair[2], h.pair[1]>>)]
  /\ op' = Did("hash")
  /\ UNCHANGED <<engine, stroke, pc>>

NextHash == HashStep

SpecHash == InitHash /\ [][NextHash]_vars

----------------------------------------------------------------------------
(* Vocabulary of the properties.                                           *)

\* two coordinates of the plane at most one apart
adjacent(a, b) ==
  \/ a = b
  \/ a < b /\ b - 1 = a
  \/ b < a /\ a - 1 = b

\* the live Moore neighbours of a cell in the plane: the live cells other
\* than the cell itself at most one column and one row away
MooreNeighbours(g, cell) ==
  { d \in g : d # cell /\ adjacent(d[1], cell[1]) /\ adjacent(d[2], cell[2]) }

\* Conway's rule B3/S23 for one cell
AliveNext(g, cell) ==
  LET n == Cardinality(MooreNeighbours(g, cell))
  IN  \/ cell \in g /\ (n = 2 \/ n = 3)
      \/ cell \notin g /\ n = 3

\* the int coordinates at most two away from a
around(a) == { a + d : d \in { e \in -2..2 : ~int_add_overflows(a, e) } }

\* the cells with int coordinates at most two columns and two rows away
\* from a live cell; a cell outside has no live Moore neighbour and is dead
Near(g) == UNION { around(cell[1]) \X around(cell[2]) : cell \in g }

\* the next generation on the plane, as far as ints can name its cells
RuleOnPlane(g) == { cell \in Near(g) : AliveNext(g, cell) }

\* two int coordinates at most one apart when the greatest int is followed
\* by the least
adjacent_wrapped(a, b) ==
  \/ adjacent(a, b)
  \/ a = INT_MAX /\ b = INT_MIN
  \/ a = INT_MIN /\ b = INT_MAX

\* the int coordinates at most two away from a in that order
around_wrapped(a) ==
  around(a)
    \cup { INT_MIN + k : k \in { e \in 0..1 : a >= INT_MAX - 1 + e } }
    \cup { INT_MAX - k : k \in { e \in 0..1 : a <= INT_MIN + 1 - e } }

\* the next generation of a grid of int cells whose columns and rows close
\* into rings: what a call of update_grid that returns leaves, as a function
\* of the grid alone
RuleOnInts(g) ==
  { cell \in UNION { around_wrapped(c[1]) \X around_wrapped(c[2]) : c \in g } :
      LET n == Cardinality({ d \in g : /\ d # cell
                                       /\ adjacent_wrapped(d[1], cell[1])
                                       /\ adjacent_wrapped(d[2], cell[2]) })
      IN  \/ cell \in g /\ (n = 2 \/ n = 3)
          \/ cell \notin g /\ n = 3 }

\* v is u + 1 as integers
is_successor(u, v) ==
  \/ v[1] = u[1] /\ v[2] = u[2] /\ u[3] < INT_MAX /\ v[3] = u[3] + 1
  \/ v[1] = u[1] /\ u[2] < INT_MAX /\ v[2] = u[2] + 1 /\ u[3] = INT_MAX /\ v[3] = 0
  \/ v[1] = u[1] + 1 /\ u[2] = INT_MAX /\ v[2] = 0 /\ u[3] = INT_MAX /\ v[3] = 0

Advanced == op.name \in {"step", "auto_step"}
SymDiff(a, b) == (a \ b) \cup (b \ a)

----------------------------------------------------------------------------
\* C1: after every advance a cell of the plane is alive exactly when the
\* rule says so of the grid before the advance: alive with 2 or 3 live Moore
\* neighbours, or dead with exactly 3.  Violated: the cells on the last row
\* or column have Moore neighbours no int names; the sums that should name
\* them overflow, and where the overflow wraps, cells of the first row or
\* column are counted and born in their place.
C1_RuleOnWholePlane ==
  [][ op'.name = "step" => grid' = RuleOnPlane(grid) ]_vars

\* C2: every advance, by the S key or by the auto-step, adds exactly 1 to the
\* generation counter, whatever the grid is and whether or not it changed.
C2_AdvanceCountsOne ==
  [][ op'.name \in {"step", "auto_step"} => is_successor(generation, generation') ]_vars

\* the second auto-step of a grid that was empty all along
C2_Witness ==
  /\ op.name = "auto_step"
  /\ generation = LL(2)
  /\ grid = {}
  /\ cells_modified_this_stroke = {}

\* C3: a horizontal blinker placed anywhere, the ends of the int range
\* included, differs from itself after one advance and is back after two.
C3_BlinkerPeriodTwo ==
  (h.grid0 \in Placed(Blinker) /\ op.name = "step") =>
     /\ h.pos = 1 => grid # h.grid0
     /\ h.pos = 2 => grid = h.grid0

\* a blinker on the last row, after two advances whose sums overflowed
C3_Witness ==
  /\ h.grid0 = translate(Blinker, <<0, INT_MAX>>)
  /\ update_grid_overflows(h.grid0)
  /\ h.pos = 2
  /\ op.name = "step"

\* C4: a 2x2 block placed anywhere, the ends of the int range included, is
\* unchanged by advance.
C4_BlockStillLife ==
  (h.grid0 \in Placed(Block) /\ op.name = "step" /\ h.pos >= 1) => grid = h.grid0

\* a block in the corner of the last column and the first row, after an
\* advance whose sums overflowed
C4_Witness ==
  /\ h.grid0 = translate(Block, <<INT_MAX - 1, INT_MIN>>)
  /\ update_grid_overflows(h.grid0)
  /\ h.pos = 1
  /\ op.name = "step"

\* C5: from the empty grid every advance gives the empty grid.
C5_EmptyFixedPoint ==
  [][ (op'.name \in {"step", "auto_step"} /\ grid = {}) => grid' = {} ]_vars

\* the empty grid advanced twice
C5_Witness ==
  /\ h.grid0 = {}
  /\ h.pos = 2
  /\ op.name = "step"
  /\ grid = {}

\* C6: a grid of one live cell, at any int coordinate, is empty after one
\* advance.
C6_SingleCellDies ==
  (h.grid0 \in Placed(Single) /\ op.name = "step" /\ h.pos = 1) => grid = {}

\* a single cell in the corner of the first column and the last row, after
\* one advance whose sums overflowed
C6_Witness ==
  /\ h.grid0 = { <<INT_MIN, INT_MAX>> }
  /\ update_grid_overflows(h.grid0)
  /\ h.pos = 1
  /\ op.name = "step"

\* C7: continue_stroke keeps the stroke mode, removes nothing in a draw
\* stroke and adds nothing in an erase stroke; the mode changes only in
\* toggle_start.
C7_StrokeModeFixed ==
  [][ /\ op'.name = "continue_stroke" =>
           /\ paint_mode_is_drawing' = paint_mode_is_drawing
           /\ paint_mode_is_drawing => grid \subseteq grid'
           /\ ~paint_mode_is_drawing => grid' \subseteq grid
      /\ paint_mode_is_drawing' # paint_mode_is_drawing => op'.name = "toggle_start"
    ]_vars

\* an erase stroke went over a second cell while live cells remain around it
C7_Witness ==
  /\ op.name = "continue_stroke"
  /\ ~paint_mode_is_drawing
  /\ Cardinality(cells_modified_this_stroke) >= 2
  /\ op.cell \notin grid
  /\ grid # {}

\* C8: within a stroke a cell is changed at most once: toggle_start and
\* continue_stroke mark their cell as modified, the marks stay until the next
\* toggle_start, continue_stroke on a marked cell leaves the grid as it is
\* and on an unmarked cell changes no other cell, and no other branch of the
\* mouse handler changes the grid.
C8_OncePerStroke ==
  [][ /\ (op'.name = "continue_stroke" /\ op'.cell \in cells_modified_this_stroke)
            => grid' = grid
      /\ op'.name = "continue_stroke" => SymDiff(grid, grid') \subseteq {op'.cell}
      /\ op'.name \in {"toggle_start", "continue_stroke"}
            => op'.cell \in cells_modified_this_stroke'
      /\ op'.name # "toggle_start"
            => cells_modified_this_stroke \subseteq cells_modified_this_stroke'
      /\ op'.name \in {"press_blocked", "stroke_cancel", "end_stroke",
                       "end_signal", "mouse_idle"} => grid' = grid
    ]_vars

\* a draw stroke comes back to a cell it drew and an advance has killed since:
\* the cell stays dead
C8_Witness ==
  /\ op.name = "continue_stroke"
  /\ is_painting
  /\ paint_mode_is_drawing
  /\ op.cell \notin grid
  /\ less_than(LL(0), generation)

\* C9: with no advance between them, toggle_start(c); end_stroke;
\* toggle_start(c); end_stroke gives back the grid it started from: the first
\* press flips c, the second flips it back, the ends change nothing.
C9_ToggleTwiceIsIdentity ==
  /\ h.pos \in {1, 2} => grid = SymDiff(h.grid0, {h.cell0})
  /\ h.pos \in {3, 4} => grid = h.grid0

\* both strokes done on a cell that was alive among other live cells
C9_Witness ==
  /\ h.pos = 4
  /\ h.cell0 \in h.grid0
  /\ Cardinality(h.grid0) >= 2
  /\ ~is_painting

\* C10 as stated: right after a stroke ends the set of modified cells is empty.
C10_TouchedSetClearedAtEnd ==
  op.name \in {"end_stroke", "end_signal"} => cells_modified_this_stroke = {}

\* C10 amended: ending a stroke only lowers the painting flag; the grid, the
\* set of modified cells and the stroke mode keep their values (the next
\* toggle_start replaces them), and a release that finds no stroke in
\* progress changes nothing.
C10_EndStrokeKeepsRecord ==
  [][ /\ op'.name \in {"end_stroke", "end_signal"} =>
           /\ ~is_painting'
           /\ cells_modified_this_stroke' = cells_modified_this_stroke
           /\ cells_modified_this_stroke' # {}
           /\ paint_mode_is_drawing' = paint_mode_is_drawing
           /\ grid' = grid
      /\ (pc = "mouse" /\ ~is_painting /\ ~op'.pressed) =>
           /\ op'.name = "mouse_idle"
           /\ UNCHANGED <<engine, stroke>>
    ]_vars

\* a stroke over two cells has ended on a release and its record is still there
C10_Witness ==
  /\ op.name = "end_stroke"
  /\ op.released
  /\ ~is_painting
  /\ Cardinality(cells_modified_this_stroke) >= 2

\* C11: the rate always lies between 0.01 s and 2.0 s (1 and 200 hundredths);
\* a speed-up takes 0.05 s off and gives exactly 0.01 s when that would go
\* below it, a slow-down adds 0.05 s and gives exactly 2.0 s when that would
\* go above it, and every rate key request is served (the frame goes on).
C11_RateClamped ==
  /\ [](step_rate >= 1 /\ step_rate <= 200)
  /\ [][ /\ op'.name = "speed_up" =>
               step_rate' = IF step_rate - 5 < 1 THEN 1 ELSE step_rate - 5
         /\ op'.name = "slow_down" =>
               step_rate' = IF step_rate + 5 > 200 THEN 200 ELSE step_rate + 5
         /\ pc = "up" => pc' = "down"
         /\ pc = "down" => pc' = "r"
       ]_vars

\* a slow-down from 1.96 s, which would give 2.01 s, left the rate at 2.0 s
C11_Witness ==
  /\ op.name = "slow_down"
  /\ h.prev_rate = 196
  /\ step_rate = 200

\* C12: a reset leaves the engine as main() constructs it: empty grid,
\* generation 0, rate 0.2 s, paused.
C12_ResetIsFresh ==
  [][ op'.name = "reset" =>
        /\ grid' = {}
        /\ generation' = LL(0)
        /\ step_rate' = 20
        /\ paused' = TRUE ]_vars

\* a reset in the middle of a draw stroke that has covered two cells
C12_Witness ==
  /\ op.name = "reset"
  /\ is_painting
  /\ paint_mode_is_drawing
  /\ Cardinality(cells_modified_this_stroke) >= 2
  /\ grid = {} /\ generation = LL(0) /\ step_rate = 20 /\ paused

\* C13: when the frame reaches the auto-step test paused, no advance is made
\* whatever the clock says; the generation moves only on a manual step, an
\* auto-step or a reset, and an auto-step is made only while not paused;
\* while paused a manual step is still one advance and toggle_start and
\* continue_stroke on a fresh cell still change the grid.
C13_PausedNoAutoStep ==
  [][ /\ (pc = "auto" /\ paused) =>
            (op'.name = "no_step" /\ generation' = generation /\ grid' = grid)
      /\ op'.name = "auto_step" => (~paused /\ ~paused')
      /\ generation' # generation =>
            \/ op'.name \in {"step", "auto_step"} /\ is_successor(generation, generation')
            \/ op'.name = "reset" /\ generation' = LL(0)
      /\ (paused /\ op'.name = "step") =>
            /\ is_successor(generation, generation')
            /\ grid' = RuleOnInts(grid)
            /\ paused'
      /\ (paused /\ op'.name = "toggle_start") => grid' # grid
      /\ (paused /\ op'.name = "continue_stroke"
                 /\ op'.cell \notin cells_modified_this_stroke
                 /\ (paint_mode_is_drawing <=> op'.cell \notin grid)) => grid' # grid
    ]_vars

\* a manual step made while paused took the generation from 1 to 2 and left
\* live cells, in the middle of a stroke
C13_Witness ==
  /\ paused
  /\ op.name = "step"
  /\ generation = LL(2)
  /\ grid # {}
  /\ is_painting

\* C14: an advance leaves the grid that is the next generation of the grid
\* before it, a function of that grid alone, whatever the generation, the
\* rate, the paused flag and the stroke are, and leaves the paused flag, the
\* rate, the painting flag, the stroke mode and the set of modified cells
\* alone.
C14_AdvanceIsPure ==
  [][ op'.name \in {"step", "auto_step"} =>
        /\ grid' = RuleOnInts(grid)
        /\ paused' = paused
        /\ step_rate' = step_rate
        /\ is_painting' = is_painting
        /\ paint_mode_is_drawing' = paint_mode_is_drawing
        /\ cells_modified_this_stroke' = cells_modified_this_stroke ]_vars

\* a manual step of a running simulation at generation 1, in the middle of a
\* stroke, at a rate other than the default, that left live cells
C14_Witness ==
  /\ op.name = "step"
  /\ generation = LL(2)
  /\ ~paused
  /\ is_painting
  /\ step_rate # RATE_DEFAULT
  /\ cells_modified_this_stroke # {}
  /\ grid # {}

\* C15: the generation counter equals the number of advances since the last
\* reset (or since the start); it decreases only on a reset, to 0, and the
\* mouse handler, the pause key and the rate keys leave it alone.
C15_GenerationCountsAdvances ==
  /\ [](generation = LL(h.calls))
  /\ [][ /\ less_than(generation', generation) =>
               (op'.name = "reset" /\ generation' = LL(0))
         /\ op'.name = "reset" => generation' = LL(0)
         /\ pc \in {"mouse", "space", "up", "down"} => generation' = generation
       ]_vars

\* the second auto-step since the last reset left live cells and was
\* counted
C15_Witness ==
  /\ op.name = "auto_step"
  /\ generation = LL(2)
  /\ h.calls = 2
  /\ grid # {}

\* C16: a press (without the right button) that finds a stroke in progress
\* starts a stroke afresh: the painting flag stays up, the pressed cell is
\* flipped, the mode is erase if it was alive and draw if it was dead, and
\* the pressed cell is the only modified cell on record.
C16_NestedPressRestarts ==
  [][ /\ (pc = "mouse" /\ is_painting /\ op'.pressed /\ ~op'.right) =>
             op'.name = "toggle_start"
      /\ (is_painting /\ op'.name = "toggle_start") =>
             /\ is_painting'
             /\ cells_modified_this_stroke' = {op'.cell}
             /\ paint_mode_is_drawing' = (op'.cell \notin grid)
             /\ grid' = SymDiff(grid, {op'.cell})
    ]_vars

\* a press during a stroke found its cell alive: an erase stroke began with
\* that cell alone on record, though no advance or reset had happened
C16_Witness ==
  /\ op.name = "toggle_start"
  /\ op.was_painting
  /\ ~paint_mode_is_drawing
  /\ cells_modified_this_stroke = {op.cell}
  /\ op.cell \notin grid
  /\ grid # {}
  /\ generation = LL(0)

\* C17: a frame whose mouse handler finds the left button up leaves the
\* painting flag down, so a raised flag means the button was down; the rest
\* of the frame does not touch the flag; continue_stroke runs only with the
\* flag up, and without a press the handler changes the grid only then.
C17_IdleWhenButtonUp ==
  [][ /\ (pc = "mouse" /\ ~op'.left_down) => ~is_painting'
      /\ (pc = "mouse" /\ is_painting') => op'.left_down
      /\ pc # "mouse" => is_painting' = is_painting
      /\ op'.name = "continue_stroke" => (is_painting /\ op'.left_down)
      /\ (pc = "mouse" /\ ~is_painting /\ ~op'.pressed) => grid' = grid
    ]_vars

\* the button was found up with no release reported while a stroke was in
\* progress: the stroke is over
C17_Witness ==
  /\ op.name = "end_signal"
  /\ op.was_painting
  /\ ~op.left_down
  /\ ~op.released
  /\ ~is_painting

\* C18: a press with the right button held starts no stroke and leaves the
\* grid and the set of modified cells unchanged; every frame that finds a
\* stroke in progress and the right button held ends the stroke and leaves
\* the grid alone; and a stroke that is over stays over until the next
\* press, however long the left button stays down.
C18_RightButtonSuppresses ==
  [][ /\ (pc = "mouse" /\ op'.pressed /\ op'.right) =>
             /\ op'.name = "press_blocked"
             /\ grid' = grid
             /\ cells_modified_this_stroke' = cells_modified_this_stroke
             /\ ~is_painting'
      /\ (pc = "mouse" /\ is_painting /\ op'.right) =>
             /\ ~is_painting'
             /\ grid' = grid
      /\ (pc = "mouse" /\ ~is_painting /\ ~op'.pressed) => ~is_painting'
    ]_vars

\* a stroke that had covered two cells was abandoned in a frame with both
\* buttons down
C18_Witness ==
  /\ op.name = "stroke_cancel"
  /\ op.left_down /\ op.right
  /\ ~is_painting
  /\ Cardinality(cells_modified_this_stroke) >= 2

\* C19: a reset leaves the painting flag, the stroke mode and the set of
\* modified cells as they were, and continue_stroke on a cell of that set
\* still changes nothing.
C19_ResetKeepsStroke ==
  [][ /\ op'.name = "reset" =>
             /\ is_painting' = is_painting
             /\ paint_mode_is_drawing' = paint_mode_is_drawing
             /\ cells_modified_this_stroke' = cells_modified_this_stroke
      /\ (op'.name = "continue_stroke" /\ op'.cell \in cells_modified_this_stroke) =>
             /\ grid' = grid
             /\ cells_modified_this_stroke' = cells_modified_this_stroke
    ]_vars

\* a draw stroke came back to a cell it had drawn before a reset: the cell
\* stays dead in the cleared grid
C19_Witness ==
  /\ op.name = "continue_stroke"
  /\ op.was_painting
  /\ is_painting
  /\ paint_mode_is_drawing
  /\ op.cell \notin grid
  /\ grid = {}
  /\ generation = LL(0)

\* the number a word stands for when its bits from 31 up are all 0
word_value(w) ==
  LET RECURSIVE sum(_)
      sum(i) == IF i < 0 THEN 0 ELSE w[i] * (2^i) + sum(i - 1)
  IN  sum(30)

is_small(w) == \A i \in BitPositions : i > 30 => w[i] = 0

\* C20 as stated: for all a and b the hash of <<a, b>> equals the hash of
\* <<b, a>>.  Violated: the hash of <<0, 1>> is 2 and the hash of <<1, 0>>
\* is 1.
C20_SwappedPairsCollide ==
  op.name = "hash" => h.hash = h.swapped_hash

\* C20: the hash of <<a, b>> equals the hash of <<b, a>> exactly when
\* a = b; the hash is the first coordinate's word XOR the second
\* coordinate's word moved up by one bit.
C20_SwappedPairsCollideOnlyIfEqual ==
  op.name = "hash" =>
     /\ (h.hash = h.swapped_hash) <=> (h.pair[1] = h.pair[2])
     /\ \A i \in BitPositions :
           h.hash[i] = (hash_int(h.pair[1])[i]
                          + (IF i = 0 THEN 0 ELSE hash_int(h.pair[2])[i - 1])) % 2

\* the pair <<1, 2>> hashes to 5 and the swapped pair to 0
C20_Witness ==
  /\ op.name = "hash"
  /\ h.pair = <<1, 2>>
  /\ is_small(h.hash) /\ word_value(h.hash) = 5
  /\ is_small(h.swapped_hash) /\ word_value(h.swapped_hash) = 0

====
